---- MODULE Spec2Model ----
(***************************************************************************)
(* A model of restictool: the Configuration object                         *)
(* (src/src/restictool/configuration_parser.py, configuration_validator.py)*)
(* and the ResticTool orchestrator (src/src/restictool/restic_tool.py).    *)
(*                                                                         *)
(* Python values are modelled as follows.  A str is a TLA+ string; a dict  *)
(* is a function whose DOMAIN is its key set (a key is absent when it is   *)
(* not in the DOMAIN); a list or tuple is a sequence.  An optional str     *)
(* parameter (default None) is a sequence of length at most one: <<>> is   *)
(* None and <<s>> is the string s.  The attributes of a Configuration that *)
(* still hold None are the members of noneAttrs.                           *)
(***************************************************************************)
EXTENDS Integers, Sequences, FiniteSets, TLC

VARIABLES
    \* ---- Configuration object (configuration_parser.py:68-74)
    configuration,        \* the validated document
    environment_vars,     \* dict of environment names and values
    hostname,             \* str
    volumes_to_backup,    \* list of explicitly declared volume names
    backup_all_volumes,   \* bool
    localdirs_to_backup,  \* list of (name, path)
    noneAttrs,            \* the attributes above that are still None
    \* ---- observation of the calls made on the Configuration
    loadDoc,              \* the document handed to the last load()
    loadResult,           \* "none" | "ok" | "ValueError"
    loadError,            \* what the ValueError names
    query,                \* the last get_options / is_volume_backed_up call
    \* ---- ResticTool object (restic_tool.py:42-46)
    settings,             \* Settings
    client,               \* "None" or the docker client
    own_ip_address,       \* optional str
    \* ---- the invocation setup(); run() of entry_point.run
    pc,                   \* where the invocation stands
    frame,                \* the locals of run() / _run_backup / _run_docker
    outcome,              \* how the invocation ended
    \* ---- the container runtime and the filesystem
    docker,               \* volume inventory, containers, the calls received
    \* ---- Metrics object (restictool.metrics)
    metrics               \* the sample set() derived and the lines last emitted

cfgVars == << configuration, environment_vars, hostname, volumes_to_backup,
              backup_all_volumes, localdirs_to_backup, noneAttrs >>
obsVars == << loadDoc, loadResult, loadError, query >>
toolVars == << settings, client, own_ip_address, pc, frame, outcome, docker,
              metrics >>
vars == << cfgVars, obsVars, toolVars >>

\* ------------------------------------------------------------------ bounds
\* the most volumes the container runtime lists
MaxInventory == 2
\* the longest `volumes` list of a document
MaxVolumes == 2
\* the longest `localdirs` list of a document
MaxLocaldirs == 2
\* the most entries `authentication` and `extra` hold together
MaxEnvEntries == 2

\* ------------------------------------------------------------ python values
\* YAML null / Python None, where a mapping is expected
None == [None |-> "None"]

EmptyDict == [k \in {} |-> ""]

\* dict.update(): the entries of e overwrite those of d
Update(d, e) ==
    [k \in (DOMAIN d) \cup (DOMAIN e) |-> IF k \in DOMAIN e THEN e[k] ELSE d[k]]

\* truth value of an optional str: None and "" are false
Truthy(opt) == opt # <<>> /\ opt[1] # ""

RECURSIVE Rep(_, _)
Rep(s, n) == IF n = 0 THEN "" ELSE s \o Rep(s, n - 1)

\* code points of the characters that occur in the names of the model
Ord(c) ==
    CASE c = "\n" -> 10
      [] c = "*" -> 42
      [] c = "0" -> 48
      [] c = "1" -> 49
      [] c = "2" -> 50
      [] c = "3" -> 51
      [] c = "4" -> 52
      [] c = "5" -> 53
      [] c = "6" -> 54
      [] c = "7" -> 55
      [] c = "8" -> 56
      [] c = "9" -> 57
      [] c = "A" -> 65
      [] c = "B" -> 66
      [] c = "C" -> 67
      [] c = "D" -> 68
      [] c = "E" -> 69
      [] c = "F" -> 70
      [] c = "G" -> 71
      [] c = "V" -> 86
      [] c = "Z" -> 90
      [] c = "_" -> 95
      [] c = "a" -> 97
      [] c = "b" -> 98
      [] c = "c" -> 99
      [] c = "d" -> 100
      [] c = "e" -> 101
      [] c = "f" -> 102
      [] c = "g" -> 103
      [] c = "h" -> 104
      [] c = "l" -> 108
      [] c = "o" -> 111
      [] c = "r" -> 114
      [] c = "t" -> 116
      [] c = "v" -> 118
      [] c = "x" -> 120

\* ------------------------------------------------- configuration_validator
\* len(s) > 0
NonEmpty(s) == s # ""

\* a mapping, as opposed to YAML null
IsDict(x) == x # None

\* [And(Use(str), lambda s: len(s) > 0)]
ValidOptionList(l) == \A i \in 1..Len(l) : NonEmpty(l[i])

\* a REPOSITORY_SCHEMA whose str fields may be empty
REPOSITORY_SCHEMA_empty_allowed(r) ==
    IF ~IsDict(r) THEN {"repository"}
    ELSE LET strKeys == {"location", "password", "host", "network_from"}
             missing == {"location", "password"} \ DOMAIN r
             wrong   == (DOMAIN r) \ (strKeys \cup {"authentication", "extra"})
         IN  IF missing # {} THEN {"repository"} \cup missing
             ELSE IF wrong # {} THEN {"repository"} \cup wrong
             ELSE {}

\* REPOSITORY_SCHEMA: the names a SchemaError raised for r mentions
REPOSITORY_SCHEMA(r) ==
    IF ~IsDict(r) THEN {"repository"}
    ELSE LET strKeys == {"location", "password", "host", "network_from"}
             empty   == {k \in strKeys \cap DOMAIN r : ~NonEmpty(r[k])}
             missing == {"location", "password"} \ DOMAIN r
             wrong   == (DOMAIN r) \ (strKeys \cup {"authentication", "extra"})
         IN  IF empty # {} THEN {"repository"} \cup empty
             ELSE IF missing # {} THEN {"repository"} \cup missing
             ELSE IF wrong # {} THEN {"repository"} \cup wrong
             ELSE {}

\* OPTIONS_SCHEMA
OPTIONS_SCHEMA(o) ==
    IF ~IsDict(o) THEN {"options"}
    ELSE LET known == {"common", "forget", "volume", "localdir"}
             bad   == {k \in known \cap DOMAIN o : ~ValidOptionList(o[k])}
             wrong == (DOMAIN o) \ known
         IN  IF bad # {} THEN {"options"} \cup bad
             ELSE IF wrong # {} THEN {"options"} \cup wrong
             ELSE {}

\* VOLUME_SCHEMA
VOLUME_SCHEMA(v) ==
    /\ DOMAIN v \subseteq {"name", "options"}
    /\ "name" \in DOMAIN v
    /\ NonEmpty(v.name)
    /\ "options" \in DOMAIN v => ValidOptionList(v.options)

\* a LOCALDIR_SCHEMA whose name is any str, the empty one included
LOCALDIR_SCHEMA_any_name(d) ==
    /\ DOMAIN d \subseteq {"name", "path", "options"}
    /\ {"name", "path"} \subseteq DOMAIN d
    /\ NonEmpty(d.path)
    /\ "options" \in DOMAIN d => ValidOptionList(d.options)

\* LOCALDIR_SCHEMA
LOCALDIR_SCHEMA(d) ==
    /\ DOMAIN d \subseteq {"name", "path", "options"}
    /\ {"name", "path"} \subseteq DOMAIN d
    /\ NonEmpty(d.name)
    /\ NonEmpty(d.path)
    /\ "options" \in DOMAIN d => ValidOptionList(d.options)

\* a SCHEMA built with ignore_extra_keys: unknown top-level keys pass
SCHEMA_ignore_extra_keys(config) ==
    IF ~IsDict(config) THEN {"dict"}
    ELSE LET rep   == IF "repository" \in DOMAIN config
                      THEN REPOSITORY_SCHEMA(config.repository) ELSE {}
             opt   == IF "options" \in DOMAIN config
                      THEN OPTIONS_SCHEMA(config.options) ELSE {}
             vol   == IF /\ "volumes" \in DOMAIN config
                         /\ \E i \in 1..Len(config.volumes) :
                                ~VOLUME_SCHEMA(config.volumes[i])
                      THEN {"volumes"} ELSE {}
             ldir  == IF /\ "localdirs" \in DOMAIN config
                         /\ \E i \in 1..Len(config.localdirs) :
                                ~LOCALDIR_SCHEMA(config.localdirs[i])
                      THEN {"localdirs"} ELSE {}
         IN  IF rep \cup opt \cup vol \cup ldir # {}
             THEN rep \cup opt \cup vol \cup ldir
             ELSE {"repository"} \ DOMAIN config

\* SCHEMA: the names the SchemaError mentions; {} when the document is valid
SCHEMA(config) ==
    IF ~IsDict(config) THEN {"dict"}
    ELSE LET known == {"repository", "logging", "options", "volumes", "localdirs"}
             rep   == IF "repository" \in DOMAIN config
                      THEN REPOSITORY_SCHEMA(config.repository) ELSE {}
             opt   == IF "options" \in DOMAIN config
                      THEN OPTIONS_SCHEMA(config.options) ELSE {}
             vol   == IF /\ "volumes" \in DOMAIN config
                         /\ \E i \in 1..Len(config.volumes) :
                                ~VOLUME_SCHEMA(config.volumes[i])
                      THEN {"volumes"} ELSE {}
             ldir  == IF /\ "localdirs" \in DOMAIN config
                         /\ \E i \in 1..Len(config.localdirs) :
                                ~LOCALDIR_SCHEMA(config.localdirs[i])
                      THEN {"localdirs"} ELSE {}
             missing == {"repository"} \ DOMAIN config
             wrong   == (DOMAIN config) \ known
         IN  IF rep \cup opt \cup vol \cup ldir # {}
             THEN rep \cup opt \cup vol \cup ldir
             ELSE IF missing # {} THEN missing
             ELSE wrong

\* validate(config): the validated configuration, or a SchemaError.  Every
\* scalar of a document of the model is a str, on which Use(str) changes
\* nothing, so the validated configuration is the document itself.
validate(config) ==
    [raised |-> SCHEMA(config) # {}, names |-> SCHEMA(config), value |-> config]

\* ----------------------------------------------------- configuration_parser
\* a forbidden list whose every name carries the RESTIC_ prefix
FORBIDDEN_ENV_VARS_prefixed ==
    << "RESTIC_REPOSITORY", "RESTIC_REPOSITORY_FILE", "RESTIC_PASSWORD",
       "RESTIC_PASSWORD_FILE", "RESTIC_PASSWORD_COMMAND", "RESTIC_CACHE_DIR",
       "RESTIC_TMPDIR" >>

FORBIDDEN_ENV_VARS ==
    << "RESTIC_REPOSITORY", "RESTIC_REPOSITORY_FILE", "RESTIC_PASSWORD",
       "RESTIC_PASSWORD_FILE", "RESTIC_PASSWORD_COMMAND", "RESTIC_CACHE_DIR",
       "TMPDIR" >>

\* the shortest name ANONYMOUS_VOLUME_REGEX matches: {48,}
AnonymousMinLen == 48

\* the character class [0-9a-fA-f] of ANONYMOUS_VOLUME_REGEX: the ranges
\* 0-9, a-f and A-f (code points 65 to 102)
InAnonymousClass(c) ==
    LET o == Ord(c)
    IN  \/ Ord("0") <= o /\ o <= Ord("9")
        \/ Ord("a") <= o /\ o <= Ord("f")
        \/ Ord("A") <= o /\ o <= Ord("f")

RECURSIVE AllInAnonymousClass(_)
AllInAnonymousClass(s) ==
    s = "" \/ (InAnonymousClass(Head(s)) /\ AllInAnonymousClass(Tail(s)))

\* ANONYMOUS_VOLUME_REGEX.match(s) is not None.  ^ and $ anchor the match;
\* Python's $ matches at the end of the string and also just before a
\* newline that ends the string.
ANONYMOUS_VOLUME_REGEX(s) ==
    LET whole(t) == Len(t) >= AnonymousMinLen /\ AllInAnonymousClass(t)
    IN  \/ whole(s)
        \/ /\ Len(s) > 0
           /\ SubSeq(s, Len(s), Len(s)) = "\n"
           /\ whole(SubSeq(s, 1, Len(s) - 1))

\* platform.node() of the machine the tool runs on
PlatformNode == "MyHost"

\* str.lower(), on the characters of PlatformNode
RECURSIVE lower(_)
lower(s) ==
    IF s = "" THEN ""
    ELSE LET c == Head(s)
         IN  (CASE c = "M" -> "m" [] c = "H" -> "h" [] OTHER -> c) \o lower(Tail(s))

\* create_env_vars with the two updates in the other order
create_env_vars_auth_wins(cfg) ==
    LET repo == cfg.repository
        e == IF "extra" \in DOMAIN repo THEN Update(EmptyDict, repo.extra)
             ELSE EmptyDict
        m == IF "authentication" \in DOMAIN repo
             THEN Update(e, repo.authentication) ELSE e
        hit == {i \in 1..Len(FORBIDDEN_ENV_VARS) : FORBIDDEN_ENV_VARS[i] \in DOMAIN m}
    IN  IF hit # {}
        THEN [raised |-> TRUE, env |-> m,
              key |-> FORBIDDEN_ENV_VARS[CHOOSE i \in hit : \A j \in hit : i <= j]]
        ELSE [raised |-> FALSE, key |-> "",
              env |-> Update(Update(m, [RESTIC_REPOSITORY |-> repo.location]),
                             [RESTIC_PASSWORD |-> repo.password])]

\* create_env_vars with the repository entries injected before the check
create_env_vars_inject_first(cfg) ==
    LET repo == cfg.repository
        a == IF "authentication" \in DOMAIN repo
             THEN Update(EmptyDict, repo.authentication) ELSE EmptyDict
        m == IF "extra" \in DOMAIN repo THEN Update(a, repo.extra) ELSE a
        hit == {i \in 1..Len(FORBIDDEN_ENV_VARS) : FORBIDDEN_ENV_VARS[i] \in DOMAIN m}
        inj == Update(Update(m, [RESTIC_REPOSITORY |-> repo.location]),
                      [RESTIC_PASSWORD |-> repo.password])
    IN  IF hit # {}
        THEN [raised |-> TRUE, env |-> inj,
              key |-> FORBIDDEN_ENV_VARS[CHOOSE i \in hit : \A j \in hit : i <= j]]
        ELSE [raised |-> FALSE, key |-> "", env |-> inj]

\* Configuration.create_env_vars: the dict it leaves in environment_vars,
\* and whether (and for which key) it raises ValueError
create_env_vars(cfg) ==
    LET repo == cfg.repository
        a == IF "authentication" \in DOMAIN repo
             THEN Update(EmptyDict, repo.authentication) ELSE EmptyDict
        m == IF "extra" \in DOMAIN repo THEN Update(a, repo.extra) ELSE a
        hit == {i \in 1..Len(FORBIDDEN_ENV_VARS) : FORBIDDEN_ENV_VARS[i] \in DOMAIN m}
    IN  IF hit # {}
        THEN [raised |-> TRUE, env |-> m,
              key |-> FORBIDDEN_ENV_VARS[CHOOSE i \in hit : \A j \in hit : i <= j]]
        ELSE [raised |-> FALSE, key |-> "",
              env |-> Update(Update(m, [RESTIC_REPOSITORY |-> repo.location]),
                             [RESTIC_PASSWORD |-> repo.password])]

\* the hostname load() derives
load_hostname(cfg) ==
    IF "host" \in DOMAIN cfg.repository THEN cfg.repository.host
    ELSE lower(PlatformNode)

\* the scan without clear(): the names before the wildcard stay
RECURSIVE scan_volumes_no_clear(_, _, _)
scan_volumes_no_clear(vols, i, names) ==
    IF i > Len(vols)
    THEN [volumes_to_backup |-> names, backup_all_volumes |-> FALSE]
    ELSE IF vols[i].name = "*"
    THEN [volumes_to_backup |-> names, backup_all_volumes |-> TRUE]
    ELSE scan_volumes_no_clear(vols, i + 1, Append(names, vols[i].name))

\* the scan of load() over the volumes from entry i on, names collected so far
RECURSIVE scan_volumes(_, _, _)
scan_volumes(vols, i, names) ==
    IF i > Len(vols)
    THEN [volumes_to_backup |-> names, backup_all_volumes |-> FALSE]
    ELSE IF vols[i].name = "*"
    THEN [volumes_to_backup |-> <<>>, backup_all_volumes |-> TRUE]
    ELSE scan_volumes(vols, i + 1, Append(names, vols[i].name))

\* volumes_to_backup and backup_all_volumes as load() sets them
load_volumes(cfg) ==
    IF "volumes" \in DOMAIN cfg THEN scan_volumes(cfg.volumes, 1, <<>>)
    ELSE [volumes_to_backup |-> <<>>, backup_all_volumes |-> FALSE]

\* localdirs_to_backup as load() sets it
load_localdirs(cfg) ==
    IF "localdirs" \in DOMAIN cfg
    THEN [i \in 1..Len(cfg.localdirs) |->
             << cfg.localdirs[i].name, cfg.localdirs[i].path >>]
    ELSE <<>>

\* the index of the first entry from i on whose name is n; 0 when there is
\* none (the for loops with break of get_options)
RECURSIVE first_named(_, _, _)
first_named(entries, n, i) ==
    IF i > Len(entries) THEN 0
    ELSE IF entries[i].name = n THEN i
    ELSE first_named(entries, n, i + 1)

entry_options(e) == IF "options" \in DOMAIN e THEN e.options ELSE <<>>

\* get_options where the wildcard entry contributes after an exact match too
get_options_both(cfg, volume, localdir) ==
    LET o == IF "options" \in DOMAIN cfg THEN cfg.options ELSE EmptyDict
        vols == IF "volumes" \in DOMAIN cfg THEN cfg.volumes ELSE <<>>
        ldirs == IF "localdirs" \in DOMAIN cfg THEN cfg.localdirs ELSE <<>>
        common == IF "common" \in DOMAIN o THEN o.common ELSE <<>>
        vopt == IF Truthy(volume) /\ "volume" \in DOMAIN o THEN o.volume ELSE <<>>
        lopt == IF Truthy(localdir) /\ "localdir" \in DOMAIN o THEN o.localdir ELSE <<>>
        vent == IF ~Truthy(volume) THEN <<>>
                ELSE LET i == first_named(vols, volume[1], 1)
                         w == first_named(vols, "*", 1)
                     IN  (IF i > 0 THEN entry_options(vols[i]) ELSE <<>>)
                         \o (IF w > 0 /\ w # i THEN entry_options(vols[w]) ELSE <<>>)
        lent == IF ~Truthy(localdir) THEN <<>>
                ELSE LET i == first_named(ldirs, localdir[1], 1)
                     IN  IF i > 0 THEN entry_options(ldirs[i]) ELSE <<>>
    IN  common \o vopt \o lopt \o vent \o lent

\* Configuration.get_options(volume, localdir)
get_options(cfg, volume, localdir) ==
    LET o == IF "options" \in DOMAIN cfg THEN cfg.options ELSE EmptyDict
        vols == IF "volumes" \in DOMAIN cfg THEN cfg.volumes ELSE <<>>
        ldirs == IF "localdirs" \in DOMAIN cfg THEN cfg.localdirs ELSE <<>>
        common == IF "common" \in DOMAIN o THEN o.common ELSE <<>>
        vopt == IF Truthy(volume) /\ "volume" \in DOMAIN o THEN o.volume ELSE <<>>
        lopt == IF Truthy(localdir) /\ "localdir" \in DOMAIN o THEN o.localdir ELSE <<>>
        vent == IF ~Truthy(volume) THEN <<>>
                ELSE LET i == first_named(vols, volume[1], 1)
                         w == first_named(vols, "*", 1)
                     IN  IF i > 0 THEN entry_options(vols[i])
                         ELSE IF w > 0 THEN entry_options(vols[w])
                         ELSE <<>>
        lent == IF ~Truthy(localdir) THEN <<>>
                ELSE LET i == first_named(ldirs, localdir[1], 1)
                     IN  IF i > 0 THEN entry_options(ldirs[i]) ELSE <<>>
    IN  common \o vopt \o lopt \o vent \o lent

\* a get_options that starts from the options.common list itself rather
\* than from a new list, so that every extend() lands in the document
get_options_aliased(cfg, volume, localdir) ==
    IF "options" \in DOMAIN cfg /\ "common" \in DOMAIN cfg.options
    THEN [cfg EXCEPT !.options.common = get_options(cfg, volume, localdir)]
    ELSE cfg

\* what a call of get_options leaves of the configuration document: it
\* starts from `options = []` and only extends that new list
get_options_effect(cfg, volume, localdir) == cfg

\* is_volume_backed_up that matches a declared name as a prefix
is_volume_backed_up_prefix(all, names, volume) ==
    IF all THEN ~ANONYMOUS_VOLUME_REGEX(volume)
    ELSE \E i \in 1..Len(names) :
            Len(names[i]) <= Len(volume) /\ SubSeq(volume, 1, Len(names[i])) = names[i]

\* Configuration.is_volume_backed_up(volume), on backup_all_volumes = all and
\* volumes_to_backup = names
is_volume_backed_up(all, names, volume) ==
    IF all THEN ~ANONYMOUS_VOLUME_REGEX(volume)
    ELSE \E i \in 1..Len(names) : names[i] = volume

\* ---------------------------------------------------------------- documents
\* The configuration documents load() is given.  Each family varies one
\* section of the document and keeps the others fixed.
RepositoryBase == [location |-> "s3:loc", password |-> "secret"]

\* (section, key, value) entries of repository.authentication / .extra
EnvEntries ==
    {"authentication", "extra"} \X
        { << "AWS_ACCESS_KEY_ID", "id1" >>, << "AWS_ACCESS_KEY_ID", "id2" >>,
          << "RESTIC_REPOSITORY", "s3:loc" >>, << "TMPDIR", "/tmp" >>,
          << "RESTIC_TMPDIR", "/tmp" >> }

EnvEntrySets ==
    {S \in SUBSET EnvEntries :
        /\ Cardinality(S) <= MaxEnvEntries
        /\ \A x \in S, y \in S :
              (x[1] = y[1] /\ x[2][1] = y[2][1]) => x = y}

SectionDict(S, section) ==
    LET es == {x \in S : x[1] = section}
    IN  [k \in {x[2][1] : x \in es} |-> (CHOOSE x \in es : x[2][1] = k)[2][2]]

RepositoryOf(S) ==
    LET auth  == SectionDict(S, "authentication")
        extra == SectionDict(S, "extra")
    IN  (IF DOMAIN auth # {} THEN [authentication |-> auth] ELSE EmptyDict)
        @@ (IF DOMAIN extra # {} THEN [extra |-> extra] ELSE EmptyDict)
        @@ RepositoryBase

RepositoryDocuments ==
    {[repository |-> RepositoryOf(S)] : S \in EnvEntrySets}
    \cup {[repository |-> [host |-> "myhost"] @@ RepositoryBase],
          [repository |-> RepositoryBase, logging |-> [level |-> "INFO"]],
          [repository |-> [authentication |-> EmptyDict, extra |-> EmptyDict]
                          @@ RepositoryBase]}

OptionSections ==
    { [common |-> << "--insecure-tls" >>],
      [common |-> << "--insecure-tls" >>, volume |-> << "--volume-opt" >>,
       localdir |-> << "--localdir-opt1", "--localdir-opt2" >>,
       forget |-> << "--keep-daily", "7" >>] }

VolumeEntries ==
    { [name |-> "*", options |-> << "--opt-wildcard" >>],
      [name |-> "*"],
      [name |-> "vol1", options |-> << "--opt-vol1" >>],
      [name |-> "vol1"],
      [name |-> "vol2", options |-> << "--opt-vol2", "--exclude-caches" >>] }

LocaldirEntries ==
    { [name |-> "my_tag", path |-> "/path", options |-> << "--exclude-tag" >>],
      [name |-> "my_home", path |-> "~"],
      [name |-> "my_tag", path |-> "/other"] }

SeqsUpTo(S, n) == UNION {[1..k -> S] : k \in 0..n}

WithOptions(doc) == {doc} \cup {[options |-> o] @@ doc : o \in OptionSections}

VolumeDocuments ==
    UNION {WithOptions([repository |-> RepositoryBase, volumes |-> vs]) :
              vs \in SeqsUpTo(VolumeEntries, MaxVolumes)}

LocaldirDocuments ==
    UNION {WithOptions([repository |-> RepositoryBase, localdirs |-> ls]) :
              ls \in SeqsUpTo(LocaldirEntries, MaxLocaldirs)}

\* documents validate() rejects
InvalidDocuments ==
    { None,
      [foo |-> None],
      [repository |-> None],
      [repository |-> [password |-> "secret"]],
      [repository |-> [location |-> "", password |-> "secret"]],
      [repository |-> [location |-> "s3:loc"]],
      [repository |-> [location |-> "s3:loc", password |-> ""]],
      [repository |-> [password |-> ""]],
      [repository |-> EmptyDict],
      [repository |-> RepositoryBase, metrics |-> [directory |-> "/var/metrics"]],
      [repository |-> RepositoryBase, spurious |-> << "" >>] }

Documents ==
    RepositoryDocuments \cup VolumeDocuments \cup LocaldirDocuments
        \cup InvalidDocuments

\* the documents a Configuration that was loaded before is loaded with again
ReloadDocuments ==
    { [repository |-> RepositoryBase],
      [repository |-> RepositoryBase,
       volumes |-> << [name |-> "vol2"], [name |-> "*"] >>],
      [repository |-> [authentication |-> [TMPDIR |-> "/tmp"]] @@ RepositoryBase],
      [foo |-> None] }

\* the arguments of the calls of get_options and is_volume_backed_up
Hex48 == Rep("0123456789abcdef", 3)

QueryVolumes ==
    { "vol1", "vol2", "vol12", "other", "*",
      Hex48, SubSeq(Hex48, 1, AnonymousMinLen - 1), Hex48 \o "x", Hex48 \o "9",
      Rep("ABCDEF", 8), Rep("G", AnonymousMinLen), SubSeq(Hex48, 2, 48) \o "Z" }

QueryLocaldirs == {"my_tag", "my_home", "other"}

\* ------------------------------------------------------------------ actions
NoQuery == [op |-> "none"]

AllAttrs ==
    {"configuration", "environment_vars", "hostname", "volumes_to_backup",
     "localdirs_to_backup"}

ConfigurationInit ==
    /\ configuration = None
    /\ environment_vars = EmptyDict
    /\ hostname = ""
    /\ volumes_to_backup = << >>
    /\ backup_all_volumes = FALSE
    /\ localdirs_to_backup = << >>
    /\ noneAttrs = AllAttrs
    /\ loadDoc = None
    /\ loadResult = "none"
    /\ loadError = {}
    /\ query = NoQuery

\* Configuration.load(stream), the stream parsed by safe_load to doc
load(doc) ==
    LET v == validate(doc)
    IN  /\ loadDoc' = doc
        /\ IF v.raised
           THEN /\ loadResult' = "ValueError"
                /\ loadError' = v.names
                /\ UNCHANGED cfgVars
           ELSE LET cfg == v.value
                    env == create_env_vars(cfg)
                    vol == load_volumes(cfg)
                IN  /\ configuration' = cfg
                    /\ environment_vars' = env.env
                    /\ IF env.raised
                       THEN /\ loadResult' = "ValueError"
                            /\ loadError' = {"forbidden", env.key}
                            /\ noneAttrs' = noneAttrs \ {"configuration", "environment_vars"}
                            /\ UNCHANGED << hostname, volumes_to_backup,
                                            backup_all_volumes, localdirs_to_backup >>
                       ELSE /\ loadResult' = "ok"
                            /\ loadError' = {}
                            /\ hostname' = load_hostname(cfg)
                            /\ volumes_to_backup' = vol.volumes_to_backup
                            /\ backup_all_volumes' = vol.backup_all_volumes
                            /\ localdirs_to_backup' = load_localdirs(cfg)
                            /\ noneAttrs' = {}

\* a call of load() on the Configuration
Load ==
    \E doc \in (IF loadResult = "none" THEN Documents ELSE ReloadDocuments) :
        /\ load(doc)
        /\ query' = NoQuery
        /\ UNCHANGED toolVars

\* a call of get_options(volume, localdir); with no configuration loaded the
\* lookup in None raises TypeError
GetOptions ==
    \E volume \in {<< >>} \cup {<< n >> : n \in QueryVolumes},
       localdir \in {<< >>} \cup {<< n >> : n \in QueryLocaldirs} :
        /\ volume = << >> \/ localdir = << >>
        /\ query' = IF "configuration" \in noneAttrs
                    THEN [op |-> "get_options", volume |-> volume,
                          localdir |-> localdir, raised |-> TRUE, options |-> << >>]
                    ELSE [op |-> "get_options", volume |-> volume,
                          localdir |-> localdir, raised |-> FALSE,
                          options |-> get_options(configuration, volume, localdir)]
        /\ configuration' = IF "configuration" \in noneAttrs THEN configuration
                            ELSE get_options_effect(configuration, volume, localdir)
        /\ UNCHANGED << environment_vars, hostname, volumes_to_backup,
                        backup_all_volumes, localdirs_to_backup, noneAttrs,
                        loadDoc, loadResult, loadError, toolVars >>

\* a call of is_volume_backed_up(volume); `in None` raises TypeError
IsVolumeBackedUp ==
    \E volume \in QueryVolumes :
        /\ query' = IF ~backup_all_volumes /\ "volumes_to_backup" \in noneAttrs
                    THEN [op |-> "is_volume_backed_up", name |-> volume,
                          raised |-> TRUE, backed_up |-> FALSE]
                    ELSE [op |-> "is_volume_backed_up", name |-> volume,
                          raised |-> FALSE,
                          backed_up |-> is_volume_backed_up(backup_all_volumes,
                                                            volumes_to_backup, volume)]
        /\ UNCHANGED << cfgVars, loadDoc, loadResult, loadError, toolVars >>

\* a Configuration on its own: no ResticTool is at work
Init ==
    /\ ConfigurationInit
    /\ settings = [subcommand |-> "NOTSET"]
    /\ client = "None"
    /\ own_ip_address = << >>
    /\ pc = "idle"
    /\ frame = [phase |-> "none"]
    /\ outcome = [kind |-> "none"]
    /\ docker = [inventory |-> << >>]
    /\ metrics = [phase |-> "new"]

Next == Load \/ GetOptions \/ IsVolumeBackedUp

Spec == Init /\ [][Next]_vars

\* =============================================================== ResticTool
\* Configuration.is_forget_specified(), called at restic_tool.py:169
is_forget_specified(cfg) ==
    "options" \in DOMAIN cfg /\ "forget" \in DOMAIN cfg.options

\* a three-argument get_options whose forget scope starts with options.common
get_options_scope_with_common(cfg, volume, localdir, forget) ==
    IF forget
    THEN (IF "options" \in DOMAIN cfg /\ "common" \in DOMAIN cfg.options
          THEN cfg.options.common ELSE << >>)
         \o (IF "options" \in DOMAIN cfg /\ "forget" \in DOMAIN cfg.options
             THEN cfg.options.forget ELSE << >>)
    ELSE get_options(cfg, volume, localdir)

\* Configuration.get_options(volume, localdir, forget), the three-argument
\* form called at restic_tool.py:345-347: the forget scope is options.forget
\* alone, every other scope is get_options(volume, localdir)
get_options_scope(cfg, volume, localdir, forget) ==
    IF forget
    THEN (IF "options" \in DOMAIN cfg /\ "forget" \in DOMAIN cfg.options
          THEN cfg.options.forget ELSE << >>)
    ELSE get_options(cfg, volume, localdir)

\* the assertion of _get_restic_arguments holds
restic_arguments_assert(st, volume, localdir_name, forget, prune) ==
    (st.subcommand = "BACKUP" /\ ~forget /\ ~prune) =>
        (Truthy(volume) \/ Truthy(localdir_name))

\* a _get_restic_arguments that puts the quiet flag before the pass-through
\* arguments
_get_restic_arguments_quiet_first(st, cfg, host, volume, localdir_name, forget, prune) ==
    LET sub ==
          CASE st.subcommand = "RUN" -> get_options(cfg, << >>, << >>)
            [] st.subcommand = "EXISTS" ->
                  << "cat", "config" >> \o get_options(cfg, << >>, << >>)
            [] st.subcommand = "SNAPSHOTS" ->
                  << "snapshots" >> \o get_options(cfg, << >>, << >>)
            [] st.subcommand = "BACKUP" ->
                  (IF forget THEN << "forget" >>
                   ELSE IF prune THEN << "prune" >>
                   ELSE IF Truthy(volume)
                   THEN << "backup", "/volume/" \o volume[1] >>
                   ELSE << "backup", "/localdir/" \o localdir_name[1] >>)
                  \o get_options_scope(cfg, volume, localdir_name, forget)
                  \o (IF ~prune THEN << "--host", host >> ELSE << >>)
            [] st.subcommand = "RESTORE" ->
                  << "restore", st.restore_snapshot, "--target", "/target" >>
                  \o get_options(cfg, << >>, << >>)
            [] OTHER -> << >>
    IN  << "--cache-dir", "/cache" >> \o sub
            \o (IF st.quiet THEN << "-q" >> ELSE << >>) \o st.restic_arguments

\* a _get_restic_arguments that leaves --host out of the forget vector too
_get_restic_arguments_forget_hostless(st, cfg, host, volume, localdir_name, forget, prune) ==
    LET sub ==
          CASE st.subcommand = "RUN" -> get_options(cfg, << >>, << >>)
            [] st.subcommand = "EXISTS" ->
                  << "cat", "config" >> \o get_options(cfg, << >>, << >>)
            [] st.subcommand = "SNAPSHOTS" ->
                  << "snapshots" >> \o get_options(cfg, << >>, << >>)
            [] st.subcommand = "BACKUP" ->
                  (IF forget THEN << "forget" >>
                   ELSE IF prune THEN << "prune" >>
                   ELSE IF Truthy(volume)
                   THEN << "backup", "/volume/" \o volume[1] >>
                   ELSE << "backup", "/localdir/" \o localdir_name[1] >>)
                  \o get_options_scope(cfg, volume, localdir_name, forget)
                  \o (IF ~prune /\ ~forget THEN << "--host", host >> ELSE << >>)
            [] st.subcommand = "RESTORE" ->
                  << "restore", st.restore_snapshot, "--target", "/target" >>
                  \o get_options(cfg, << >>, << >>)
            [] OTHER -> << >>
    IN  << "--cache-dir", "/cache" >> \o sub \o st.restic_arguments
            \o (IF st.quiet THEN << "-q" >> ELSE << >>)

\* a _get_restic_arguments that restores to the host's restore directory
_get_restic_arguments_host_target(st, cfg, host, volume, localdir_name, forget, prune) ==
    LET sub ==
          CASE st.subcommand = "RUN" -> get_options(cfg, << >>, << >>)
            [] st.subcommand = "EXISTS" ->
                  << "cat", "config" >> \o get_options(cfg, << >>, << >>)
            [] st.subcommand = "SNAPSHOTS" ->
                  << "snapshots" >> \o get_options(cfg, << >>, << >>)
            [] st.subcommand = "BACKUP" ->
                  (IF forget THEN << "forget" >>
                   ELSE IF prune THEN << "prune" >>
                   ELSE IF Truthy(volume)
                   THEN << "backup", "/volume/" \o volume[1] >>
                   ELSE << "backup", "/localdir/" \o localdir_name[1] >>)
                  \o get_options_scope(cfg, volume, localdir_name, forget)
                  \o (IF ~prune THEN << "--host", host >> ELSE << >>)
            [] st.subcommand = "RESTORE" ->
                  << "restore", st.restore_snapshot, "--target", st.restore_directory >>
                  \o get_options(cfg, << >>, << >>)
            [] OTHER -> << >>
    IN  << "--cache-dir", "/cache" >> \o sub \o st.restic_arguments
            \o (IF st.quiet THEN << "-q" >> ELSE << >>)

\* ResticTool._get_restic_arguments
_get_restic_arguments(st, cfg, host, volume, localdir_name, forget, prune) ==
    LET sub ==
          CASE st.subcommand = "RUN" -> get_options(cfg, << >>, << >>)
            [] st.subcommand = "EXISTS" ->
                  << "cat", "config" >> \o get_options(cfg, << >>, << >>)
            [] st.subcommand = "SNAPSHOTS" ->
                  << "snapshots" >> \o get_options(cfg, << >>, << >>)
            [] st.subcommand = "BACKUP" ->
                  (IF forget THEN << "forget" >>
                   ELSE IF prune THEN << "prune" >>
                   ELSE IF Truthy(volume)
                   THEN << "backup", "/volume/" \o volume[1] >>
                   ELSE << "backup", "/localdir/" \o localdir_name[1] >>)
                  \o get_options_scope(cfg, volume, localdir_name, forget)
                  \o (IF ~prune THEN << "--host", host >> ELSE << >>)
            [] st.subcommand = "RESTORE" ->
                  << "restore", st.restore_snapshot, "--target", "/target" >>
                  \o get_options(cfg, << >>, << >>)
            [] OTHER -> << >>
    IN  << "--cache-dir", "/cache" >> \o sub \o st.restic_arguments
            \o (IF st.quiet THEN << "-q" >> ELSE << >>)

\* ResticTool._get_docker_mounts; localdir is << >> (None) or (name, path)
_get_docker_mounts(st, volume, localdir) ==
    LET rw(target) == [bind |-> target, mode |-> "rw"]
        m0 == [h \in {st.cache_directory} |-> rw("/cache")]
        m1 == IF st.subcommand = "BACKUP" /\ Truthy(volume)
              THEN Update(m0, [h \in {volume[1]} |-> rw("/volume/" \o volume[1])])
              ELSE m0
        m2 == IF st.subcommand = "BACKUP" /\ localdir # << >>
              THEN Update(m1, [h \in {localdir[2]} |-> rw("/localdir/" \o localdir[1])])
              ELSE m1
    IN  IF st.subcommand = "RESTORE"
        THEN Update(m2, [h \in {st.restore_directory} |-> rw("/target")])
        ELSE m2

\* a < b for str: lexicographic by code point
RECURSIVE str_lt(_, _)
str_lt(a, b) ==
    IF b = "" THEN FALSE
    ELSE IF a = "" THEN TRUE
    ELSE IF Head(a) = Head(b) THEN str_lt(Tail(a), Tail(b))
    ELSE Ord(Head(a)) < Ord(Head(b))

RECURSIVE insert_sorted(_, _)
insert_sorted(x, l) ==
    IF l = << >> THEN << x >>
    ELSE IF str_lt(x, Head(l)) THEN << x >> \o l
    ELSE << Head(l) >> \o insert_sorted(x, Tail(l))

\* the list left as the container runtime listed it
sort_forgotten(l) == l

\* list.sort() on a list of str
RECURSIVE sort(_)
sort(l) == IF l = << >> THEN << >> ELSE insert_sorted(Head(l), sort(Tail(l)))

\* the volumes _run_backup selects from the inventory, before sorting
eligible_volumes(inventory, all, names) ==
    SelectSeq(inventory, LAMBDA n : is_volume_backed_up(all, names, n))

\* ------------------------------------------------------ settings, inventory
Subcommands == {"NOTSET", "CHECK", "RUN", "BACKUP", "RESTORE", "SNAPSHOTS", "EXISTS"}

\* the cache directory of every invocation
CacheDirectory == "/home/.cache/restic"

\* the operator's flags: quiet, pass-through arguments, prune, force_pull and
\* the restore directory, which the operator may point at the cache directory
Profiles ==
    { [quiet |-> FALSE, restic_arguments |-> << >>, prune |-> FALSE,
       force_pull |-> FALSE, restore_directory |-> "/restore/to"],
      [quiet |-> TRUE, restic_arguments |-> << "--my-arg1", "--my-arg2" >>,
       prune |-> TRUE, force_pull |-> TRUE, restore_directory |-> "/restore/to"],
      [quiet |-> FALSE, restic_arguments |-> << >>, prune |-> TRUE,
       force_pull |-> FALSE, restore_directory |-> CacheDirectory] }

\* the documents the tool is started with
ToolDocuments ==
    { [repository |-> RepositoryBase],
      [repository |-> [host |-> "myhost"] @@ RepositoryBase,
       options |-> [common |-> << "--insecure-tls" >>,
                    volume |-> << "--volume-opt" >>,
                    localdir |-> << "--localdir-opt1" >>,
                    forget |-> << "--keep-daily", "7" >>],
       volumes |-> << [name |-> "vol2"],
                      [name |-> "vol1", options |-> << "--opt-vol1" >>] >>,
       localdirs |-> << [name |-> "my_tag", path |-> "/path",
                         options |-> << "--exclude-tag" >>] >>],
      [repository |-> RepositoryBase,
       options |-> [common |-> << "--insecure-tls" >>],
       volumes |-> << [name |-> "*", options |-> << "--opt-wildcard" >>] >>],
      [repository |-> RepositoryBase,
       options |-> [forget |-> << "--keep-daily", "7" >>],
       localdirs |-> << [name |-> "my_tag", path |-> "/path"],
                        [name |-> "my_home", path |-> "~"],
                        [name |-> "my_tag", path |-> "/path"] >>],
      [repository |-> RepositoryBase,
       options |-> [common |-> << "--insecure-tls" >>,
                    forget |-> << "--keep-daily", "7" >>]],
      [repository |-> [extra |-> [RESTIC_REPOSITORY |-> "s3:loc"]] @@ RepositoryBase],
      [repository |-> RepositoryBase,
       localdirs |-> << [name |-> "", path |-> "/path"] >>],
      [foo |-> None] }

SettingsSet ==
    { [subcommand |-> sub, image |-> "restic/restic",
       configuration_stream |-> doc, cache_directory |-> CacheDirectory,
       restore_snapshot |-> "latest"]
      @@ p :
        sub \in Subcommands, doc \in ToolDocuments, p \in Profiles }

\* the names of the volumes the container runtime may hold
InventoryNames == {"vol1", "vol2", "Vol0", Hex48}

\* what client.volumes.list() returns: distinct names in any order
Inventories ==
    {l \in SeqsUpTo(InventoryNames, MaxInventory) :
        \A i \in 1..Len(l), j \in 1..Len(l) : l[i] = l[j] => i = j}

\* the exit codes of a restic container
ExitCodes == {0, 1, 3}

\* ------------------------------------------------------------ the invocation
Returned == [kind |-> "returned"]

ResticToolException(code) == [kind |-> "ResticToolException", exit_code |-> code]

\* an exception of the container runtime that nothing catches
DockerError == [kind |-> "docker.errors.APIError"]

AssertionError == [kind |-> "AssertionError"]

IdleFrame ==
    [phase |-> "none", volumes |-> << >>, vi |-> 1, li |-> 1,
     backed_up |-> FALSE, exit_code |-> 0, code |-> 0]

ToolInit ==
    /\ ConfigurationInit
    /\ settings \in SettingsSet
    /\ client = "None"
    /\ own_ip_address = << >>
    /\ pc = "setup"
    /\ frame = IdleFrame
    /\ outcome = [kind |-> "none"]
    /\ \E inv \in Inventories :
          docker = [inventory |-> inv, containers |-> {}, runs |-> << >>,
                    pulled |-> FALSE, dirs |-> {}, failed_dir |-> << >>,
                    lookups |-> << >>, log |-> << >>]
    /\ metrics = [phase |-> "new"]

\* a setup() that creates the docker client for every subcommand
setup_client_always(st, cl) == "client"

\* the client setup() leaves: docker.from_env() unless the subcommand is CHECK
setup_client(st, cl) == IF st.subcommand # "CHECK" THEN "client" ELSE cl

\* ResticTool.setup()
Setup ==
    /\ pc = "setup"
    /\ load(settings.configuration_stream)
    /\ IF loadResult' = "ValueError"
       THEN /\ outcome' = ResticToolException(16)
            /\ pc' = "done"
            /\ UNCHANGED client
       ELSE IF settings.subcommand \notin
                  {"CHECK", "RUN", "BACKUP", "RESTORE", "SNAPSHOTS", "EXISTS"}
       THEN /\ outcome' = ResticToolException(16)
            /\ pc' = "done"
            /\ UNCHANGED client
       ELSE /\ client' = setup_client(settings, client)
            /\ pc' = "run"
            /\ UNCHANGED outcome
    /\ UNCHANGED << metrics, query, settings, own_ip_address, frame, docker >>

\* a _create_directory that lets the exception of os.makedirs through
_create_directory_reraises(made) ==
    IF made THEN Returned ELSE [kind |-> "OSError"]

\* _create_directory: what it ends with when os.makedirs succeeded or raised
_create_directory(made) ==
    IF made THEN Returned ELSE ResticToolException(16)

\* run() up to the dispatch through command_mux: _pull_if_needed,
\* _create_directories and _find_own_network, each with the outcomes the
\* container runtime and the filesystem can give
RunBegin ==
    /\ pc = "run"
    /\ \/ /\ settings.subcommand = "CHECK"
          /\ outcome' = Returned
          /\ pc' = "done"
          /\ UNCHANGED << own_ip_address, frame, docker >>
       \/ /\ settings.subcommand # "CHECK"
          /\ settings.force_pull
          /\ outcome' = DockerError
          /\ pc' = "done"
          /\ UNCHANGED << own_ip_address, frame, docker >>
       \/ /\ settings.subcommand # "CHECK"
          /\ \E failing \in {"cache"} \cup
                            (IF settings.subcommand = "RESTORE" THEN {"restore"} ELSE {}) :
                /\ outcome' = _create_directory(FALSE)
                /\ pc' = "done"
                /\ docker' = [docker EXCEPT
                      !.pulled = settings.force_pull,
                      !.failed_dir = << failing >>,
                      !.dirs = IF failing = "restore"
                               THEN {settings.cache_directory} ELSE {}]
                /\ UNCHANGED << own_ip_address, frame >>
       \/ /\ settings.subcommand # "CHECK"
          /\ \E net \in {"gateway", "unrecognized", "error"} :
                LET dirs == {settings.cache_directory} \cup
                            (IF settings.subcommand = "RESTORE"
                             THEN {settings.restore_directory} ELSE {})
                IN  /\ docker' = [docker EXCEPT !.pulled = settings.force_pull,
                                                !.dirs = dirs,
                                                !.lookups = << "bridge" >>]
                    /\ own_ip_address' = IF net = "gateway" THEN << "172.17.0.1" >>
                                         ELSE << >>
                    /\ IF net = "error"
                       THEN /\ outcome' = DockerError
                            /\ pc' = "done"
                            /\ UNCHANGED frame
                       ELSE /\ UNCHANGED outcome
                            /\ pc' = IF settings.subcommand = "BACKUP"
                                     THEN "backup" ELSE "docker_run"
                            /\ frame' = [frame EXCEPT !.phase =
                                  CASE settings.subcommand = "RESTORE" -> "restore"
                                    [] settings.subcommand = "EXISTS" -> "exists"
                                    [] settings.subcommand = "BACKUP" -> "backup"
                                    [] OTHER -> "general"]
    /\ UNCHANGED << metrics, cfgVars, obsVars, settings, client >>

\* a backup_continue that runs the forget phase whether or not a resource was
\* backed up
backup_continue_forget_always(f, cfg, ldirs) ==
    IF f.vi <= Len(f.volumes)
    THEN [f EXCEPT !.phase = "volume", !.backed_up = TRUE]
    ELSE IF f.li <= Len(ldirs)
    THEN [f EXCEPT !.phase = "localdir", !.backed_up = TRUE]
    ELSE IF is_forget_specified(cfg)
    THEN [f EXCEPT !.phase = "forget"]
    ELSE [f EXCEPT !.phase = "return"]

\* a backup_continue that never runs the forget phase
backup_continue_no_forget(f, cfg, ldirs) ==
    IF f.vi <= Len(f.volumes)
    THEN [f EXCEPT !.phase = "volume", !.backed_up = TRUE]
    ELSE IF f.li <= Len(ldirs)
    THEN [f EXCEPT !.phase = "localdir", !.backed_up = TRUE]
    ELSE [f EXCEPT !.phase = "return"]

\* where _run_backup goes next from frame f: the next resource of the two
\* loops, then the forget phase, then the return
backup_continue(f, cfg, ldirs) ==
    IF f.vi <= Len(f.volumes)
    THEN [f EXCEPT !.phase = "volume", !.backed_up = TRUE]
    ELSE IF f.li <= Len(ldirs)
    THEN [f EXCEPT !.phase = "localdir", !.backed_up = TRUE]
    ELSE IF f.backed_up /\ is_forget_specified(cfg)
    THEN [f EXCEPT !.phase = "forget"]
    ELSE [f EXCEPT !.phase = "return"]

\* `if code > exit_code: exit_code = code`
fold_exit_code(f) ==
    IF f.code > f.exit_code THEN [f EXCEPT !.exit_code = f.code] ELSE f

\* run_finish that raises the fixed fatal code instead of the container's
run_finish_fatal_code(st, exit_code) ==
    IF exit_code # 0 /\ st.subcommand # "EXISTS"
    THEN ResticToolException(16)
    ELSE Returned

\* run_finish that raises for every non-zero code
run_finish_always_raises(st, exit_code) ==
    IF exit_code # 0 THEN ResticToolException(exit_code) ELSE Returned

\* what run() does with the exit code its command returned
run_finish(st, exit_code) ==
    IF exit_code # 0 /\ st.subcommand # "EXISTS"
    THEN ResticToolException(exit_code)
    ELSE Returned

\* a _run_backup that returns the maximum it tracked
_run_backup_return_max(f) == f.exit_code

\* what _run_backup returns from frame f: `return 0`
_run_backup_return(f) == 0

\* _run_backup up to its first container run: the inventory is read,
\* filtered and sorted.  With nothing to back up it returns 0 at once and
\* run() returns.
RunBackupBegin ==
    /\ pc = "backup"
    /\ LET listed == eligible_volumes(docker.inventory, backup_all_volumes,
                                      volumes_to_backup)
           f == backup_continue(
                    [IdleFrame EXCEPT !.volumes = sort(listed)],
                    configuration, localdirs_to_backup)
       IN  /\ frame' = f
           /\ docker' = [docker EXCEPT
                 !.lookups = Append(@, "volumes"),
                 !.log = IF f.phase = "return" /\ ~f.backed_up
                         THEN Append(@, "Nothing to back up") ELSE @]
           /\ IF f.phase = "return"
              THEN /\ outcome' = run_finish(settings, _run_backup_return(f))
                   /\ pc' = "done"
              ELSE UNCHANGED outcome /\ pc' = "docker_run"
    /\ UNCHANGED << metrics, cfgVars, obsVars, settings, client, own_ip_address >>

\* the resource of the container run the frame stands at
frame_volume(f) == IF f.phase = "volume" THEN << f.volumes[f.vi] >> ELSE << >>

frame_localdir(f, ldirs) == IF f.phase = "localdir" THEN ldirs[f.li] ELSE << >>

\* _run_docker up to client.containers.run(): the caller builds the command
\* and the mounts, the container is created and started detached
ContainersRun ==
    /\ pc = "docker_run"
    /\ LET volume   == frame_volume(frame)
           localdir == frame_localdir(frame, localdirs_to_backup)
           ldname   == IF localdir = << >> THEN << >> ELSE << localdir[1] >>
           forget   == frame.phase = "forget"
           prune    == frame.phase = "prune"
       IN  IF ~restic_arguments_assert(settings, volume, ldname, forget, prune)
           THEN /\ outcome' = AssertionError
                /\ pc' = "done"
                /\ UNCHANGED << docker, configuration >>
           ELSE /\ docker' = [docker EXCEPT
                      !.containers = @ \cup {Len(docker.runs) + 1},
                      !.runs = Append(@,
                          [phase |-> frame.phase,
                           volume |-> volume,
                           localdir |-> localdir,
                           image |-> settings.image,
                           command |-> _get_restic_arguments(settings, configuration,
                                           hostname, volume, ldname, forget, prune),
                           environment |-> environment_vars,
                           extra_hosts |-> IF Truthy(own_ip_address)
                                           THEN [h \in {"restictool.local"} |->
                                                    own_ip_address[1]]
                                           ELSE EmptyDict,
                           volumes |-> _get_docker_mounts(settings, volume, localdir),
                           quiet |-> frame.phase = "exists",
                           exit |-> << >>])]
                /\ configuration' = get_options_effect(configuration, volume, ldname)
                /\ pc' = "docker_wait"
                /\ UNCHANGED outcome
    /\ UNCHANGED << metrics, environment_vars, hostname, volumes_to_backup,
                    backup_all_volumes, localdirs_to_backup, noneAttrs,
                    obsVars, settings, client, own_ip_address, frame >>

\* container.logs(stream=True) and container.wait(): the container exits with
\* a status code, or the container runtime raises and the exception leaves
\* run()
ContainerExit ==
    /\ pc = "docker_wait"
    /\ \/ \E c \in ExitCodes :
             /\ docker' = [docker EXCEPT !.runs[Len(docker.runs)].exit = << c >>]
             /\ pc' = "docker_remove"
             /\ UNCHANGED outcome
       \/ /\ outcome' = DockerError
          /\ pc' = "done"
          /\ UNCHANGED docker
    /\ UNCHANGED << metrics, cfgVars, obsVars, settings, client, own_ip_address, frame >>

\* container.remove() and the return of _run_docker to its caller, which goes
\* on to its next container run or returns to run()
ContainerRemove ==
    /\ pc = "docker_remove"
    /\ docker' = [docker EXCEPT !.containers = @ \ {Len(docker.runs)}]
    /\ LET code == docker.runs[Len(docker.runs)].exit[1]
           got  == [frame EXCEPT !.code = code]
           next ==
             CASE frame.phase = "volume" ->
                    backup_continue([fold_exit_code(got) EXCEPT !.vi = @ + 1],
                                    configuration, localdirs_to_backup)
               [] frame.phase = "localdir" ->
                    backup_continue([fold_exit_code(got) EXCEPT !.li = @ + 1],
                                    configuration, localdirs_to_backup)
               [] frame.phase = "forget" ->
                    IF settings.prune THEN [got EXCEPT !.phase = "prune"]
                    ELSE [fold_exit_code(got) EXCEPT !.phase = "return"]
               [] frame.phase = "prune" ->
                    [fold_exit_code(got) EXCEPT !.phase = "return"]
               [] OTHER -> [got EXCEPT !.exit_code = code]
       IN  /\ frame' = next
           /\ IF frame.phase \in {"general", "restore", "exists"}
              THEN outcome' = run_finish(settings, code) /\ pc' = "done"
              ELSE IF next.phase = "return"
              THEN /\ outcome' = run_finish(settings, _run_backup_return(next))
                   /\ pc' = "done"
              ELSE UNCHANGED outcome /\ pc' = "docker_run"
    /\ UNCHANGED << metrics, cfgVars, obsVars, settings, client, own_ip_address >>

ToolNext ==
    \/ Setup
    \/ RunBegin
    \/ RunBackupBegin
    \/ ContainersRun
    \/ ContainerExit
    \/ ContainerRemove

\* one invocation of the tool: setup() and run()
SpecTool == ToolInit /\ [][ToolNext]_vars

\* ================================================================== Metrics
\* label values are escaped: backslash, double quote and newline
RECURSIVE escape_label_value(_)
escape_label_value(s) ==
    IF s = "" THEN ""
    ELSE (CASE SubSeq(s, 1, 1) = "\\" -> "\\\\"
            [] SubSeq(s, 1, 1) = "\"" -> "\\\""
            [] SubSeq(s, 1, 1) = "\n" -> "\\n"
            [] OTHER -> SubSeq(s, 1, 1))
         \o escape_label_value(SubSeq(s, 2, Len(s)))

\* the four metric families, in the order their samples are emitted
TIMESTAMP_METRIC == "restictool_backup_timestamp_seconds"
DURATION_METRIC == "restictool_backup_duration_seconds"
FILES_METRIC == "restictool_backup_files"
SIZE_METRIC == "restictool_backup_size_bytes"

\* Metrics.set(snapshot): the sample of one snapshot record.  Times are whole
\* seconds since the epoch; an optional field is a sequence of at most one
\* value.
metrics_set(cfg, snapshot) ==
    LET summary == IF "summary" \in DOMAIN snapshot
                   THEN snapshot.summary ELSE EmptyDict
    IN [repository |-> cfg.repository.location,
        hostname |-> snapshot.hostname,
        path |-> snapshot.paths[1],
        timestamp |-> snapshot.time,
        duration |-> IF {"backup_start", "backup_end"} \subseteq DOMAIN summary
                     THEN << summary.backup_end - summary.backup_start >>
                     ELSE << >>,
        files |-> IF "total_files_processed" \in DOMAIN summary
                  THEN << summary.total_files_processed >> ELSE << >>,
        size |-> IF "total_bytes_processed" \in DOMAIN summary
                 THEN << summary.total_bytes_processed >> ELSE << >>]

\* one sample line: the metric name, the three labels, the value
sample_line(name, sample, value) ==
    name \o "{hostname=\"" \o escape_label_value(sample.hostname)
         \o "\",repository=\"" \o escape_label_value(sample.repository)
         \o "\",path=\"" \o escape_label_value(sample.path)
         \o "\"} " \o ToString(value)

\* a metric_lines that emits all four families, zero for an absent field
metric_lines_all_families(sample) ==
    << sample_line(TIMESTAMP_METRIC, sample, sample.timestamp),
       sample_line(DURATION_METRIC, sample,
                   IF sample.duration = << >> THEN 0 ELSE sample.duration[1]),
       sample_line(FILES_METRIC, sample,
                   IF sample.files = << >> THEN 0 ELSE sample.files[1]),
       sample_line(SIZE_METRIC, sample,
                   IF sample.size = << >> THEN 0 ELSE sample.size[1]),
       "" >>

\* Metrics.metric_lines(): the lines of the sample block, closed by a blank
\* line
metric_lines(sample) ==
    << sample_line(TIMESTAMP_METRIC, sample, sample.timestamp) >>
    \o (IF sample.duration = << >> THEN << >>
        ELSE << sample_line(DURATION_METRIC, sample, sample.duration[1]) >>)
    \o (IF sample.files = << >> THEN << >>
        ELSE << sample_line(FILES_METRIC, sample, sample.files[1]) >>)
    \o (IF sample.size = << >> THEN << >>
        ELSE << sample_line(SIZE_METRIC, sample, sample.size[1]) >>)
    \o << "" >>

\* ---- the snapshot records restic hands over
SnapshotTimes == {1733832768, 1733919168}
SnapshotPaths == {"/volume/vscode", "/localdir/my \"tag\"\n"}
SummaryFields ==
    [backup_start |-> 1733832700, backup_end |-> 1733832768,
     total_files_processed |-> 1131, total_bytes_processed |-> 369787002]
Summaries == {[k \in K |-> SummaryFields[k]] : K \in SUBSET DOMAIN SummaryFields}
SnapshotBase ==
    {[time |-> t, hostname |-> "mbair", paths |-> << p >>] :
        t \in SnapshotTimes, p \in SnapshotPaths}
Snapshots ==
    SnapshotBase \cup {[summary |-> s] @@ b : s \in Summaries, b \in SnapshotBase}

MetricsDocuments ==
    {[repository |-> RepositoryBase],
     [repository |-> [location |-> "s3:https://somewhere:8010/restic-backups",
                      password |-> "secret"]]}

\* a Metrics object made for a loaded Configuration
MetricsInit ==
    /\ \E doc \in MetricsDocuments :
          /\ configuration = validate(doc).value
          /\ environment_vars = create_env_vars(validate(doc).value).env
          /\ hostname = load_hostname(validate(doc).value)
          /\ volumes_to_backup = load_volumes(validate(doc).value).volumes_to_backup
          /\ backup_all_volumes = load_volumes(validate(doc).value).backup_all_volumes
          /\ localdirs_to_backup = load_localdirs(validate(doc).value)
          /\ loadDoc = doc
    /\ noneAttrs = {}
    /\ loadResult = "ok"
    /\ loadError = {}
    /\ query = NoQuery
    /\ settings = [subcommand |-> "NOTSET"]
    /\ client = "None"
    /\ own_ip_address = << >>
    /\ pc = "idle"
    /\ frame = [phase |-> "none"]
    /\ outcome = [kind |-> "none"]
    /\ docker = [inventory |-> << >>]
    /\ metrics = [phase |-> "new"]

\* Metrics.set(snapshot)
MetricsSet ==
    /\ \E snapshot \in Snapshots :
          metrics' = [phase |-> "set", snapshot |-> snapshot,
                      sample |-> metrics_set(configuration, snapshot)]
    /\ UNCHANGED << cfgVars, obsVars, settings, client, own_ip_address, pc,
                    frame, outcome, docker >>

\* Metrics.metric_lines()
MetricLines ==
    /\ metrics.phase # "new"
    /\ metrics' = [metrics EXCEPT !.phase = "emitted"]
                     @@ [lines |-> metric_lines(metrics.sample)]
    /\ UNCHANGED << cfgVars, obsVars, settings, client, own_ip_address, pc,
                    frame, outcome, docker >>

MetricsNext == MetricsSet \/ MetricLines

SpecMetrics == MetricsInit /\ [][MetricsNext]_vars

\* =================================================================== claims
Range(f) == {f[i] : i \in DOMAIN f}

Min(S) == CHOOSE i \in S : \A j \in S : i <= j

DictOrEmpty(d, k) == IF k \in DOMAIN d THEN d[k] ELSE EmptyDict

\* the keys repository.authentication and repository.extra of doc supply
UserKeys(doc) ==
    DOMAIN DictOrEmpty(doc.repository, "authentication")
        \cup DOMAIN DictOrEmpty(doc.repository, "extra")

\* the last load() was given a document the schema accepts
LoadedValid == loadResult # "none" /\ SCHEMA(loadDoc) = {}

\* C1: a document whose repository.authentication or repository.extra holds a
\* forbidden key makes load() fail with ValueError, and after the failed load
\* every entry of environment_vars is an entry the document supplied in
\* authentication or extra: nothing was injected from repository.location or
\* repository.password.
C1_ForbiddenKeyFails ==
    (LoadedValid /\ UserKeys(loadDoc) \cap Range(FORBIDDEN_ENV_VARS) # {}) =>
        /\ loadResult = "ValueError"
        /\ "forbidden" \in loadError
        /\ \A k \in DOMAIN environment_vars :
              \E sec \in {"authentication", "extra"} :
                  /\ sec \in DOMAIN loadDoc.repository
                  /\ k \in DOMAIN loadDoc.repository[sec]
                  /\ loadDoc.repository[sec][k] = environment_vars[k]

\* a load that failed on TMPDIR supplied next to a permitted key
C1_Witness ==
    /\ loadResult = "ValueError"
    /\ loadError = {"forbidden", "TMPDIR"}
    /\ DOMAIN environment_vars = {"TMPDIR", "AWS_ACCESS_KEY_ID"}

\* C2: after a successful load() environment_vars holds exactly the keys of
\* authentication and extra plus RESTIC_REPOSITORY and RESTIC_PASSWORD; the two
\* injected keys carry repository.location and repository.password, and every
\* other key carries the value of extra when extra has the key, otherwise the
\* value of authentication.
C2_EnvironmentVars ==
    loadResult = "ok" =>
        LET repo  == loadDoc.repository
            auth  == DictOrEmpty(repo, "authentication")
            extra == DictOrEmpty(repo, "extra")
        IN  /\ DOMAIN environment_vars =
                  DOMAIN auth \cup DOMAIN extra
                      \cup {"RESTIC_REPOSITORY", "RESTIC_PASSWORD"}
            /\ environment_vars["RESTIC_REPOSITORY"] = repo.location
            /\ environment_vars["RESTIC_PASSWORD"] = repo.password
            /\ \A k \in DOMAIN extra \ {"RESTIC_REPOSITORY", "RESTIC_PASSWORD"} :
                  environment_vars[k] = extra[k]
            /\ \A k \in DOMAIN auth \ (DOMAIN extra
                                        \cup {"RESTIC_REPOSITORY", "RESTIC_PASSWORD"}) :
                  environment_vars[k] = auth[k]

\* a successful load of a document whose authentication and extra disagree on
\* a key
C2_Witness ==
    /\ loadResult = "ok"
    /\ {"authentication", "extra"} \subseteq DOMAIN loadDoc.repository
    /\ loadDoc.repository.authentication = [AWS_ACCESS_KEY_ID |-> "id1"]
    /\ loadDoc.repository.extra = [AWS_ACCESS_KEY_ID |-> "id2"]
    /\ environment_vars["AWS_ACCESS_KEY_ID"] = "id2"

\* the declared volume entries of a configuration
VolumesOf(cfg) == IF "volumes" \in DOMAIN cfg THEN cfg.volumes ELSE << >>

\* the options of one scope of the options section
ScopeOptions(cfg, scope) ==
    IF "options" \in DOMAIN cfg /\ scope \in DOMAIN cfg.options
    THEN cfg.options[scope] ELSE << >>

\* C3: get_options(volume=v) is options.common, then options.volume, then the
\* options of one volume entry: the first entry named v when there is one
\* (nothing when that entry has no options), otherwise the first entry named
\* '*' when there is one, otherwise nothing.
C3_VolumeOptions ==
    (query.op = "get_options" /\ ~query.raised /\ query.volume # << >>) =>
        LET v     == query.volume[1]
            vols  == VolumesOf(configuration)
            exact == {i \in 1..Len(vols) : vols[i].name = v}
            wild  == {i \in 1..Len(vols) : vols[i].name = "*"}
            entry == IF exact # {} THEN << vols[Min(exact)] >>
                     ELSE IF wild # {} THEN << vols[Min(wild)] >>
                     ELSE << >>
            own   == IF entry # << >> /\ "options" \in DOMAIN entry[1]
                     THEN entry[1].options ELSE << >>
        IN  query.options =
                ScopeOptions(configuration, "common")
                    \o ScopeOptions(configuration, "volume") \o own

\* get_options for a volume whose own entry has no options while a wildcard
\* entry with options is declared before it
C3_Witness ==
    /\ query.op = "get_options"
    /\ ~query.raised
    /\ query.volume = << "vol1" >>
    /\ VolumesOf(configuration) =
          << [name |-> "*", options |-> << "--opt-wildcard" >>], [name |-> "vol1"] >>
    /\ "options" \in DOMAIN configuration
    /\ query.options = << "--insecure-tls", "--volume-opt" >>

\* the hexadecimal digits
IsHexDigit(c) ==
    c \in {"0", "1", "2", "3", "4", "5", "6", "7", "8", "9",
           "a", "b", "c", "d", "e", "f", "A", "B", "C", "D", "E", "F"}

RECURSIVE AllHex(_)
AllHex(s) == s = "" \/ (IsHexDigit(Head(s)) /\ AllHex(Tail(s)))

\* C5: in wildcard mode is_volume_backed_up(name) is false exactly when the
\* whole name is 48 or more hexadecimal characters.
C5_AnonymousExactlyHex ==
    (query.op = "is_volume_backed_up" /\ ~query.raised /\ backup_all_volumes) =>
        (query.backed_up = FALSE <=>
            (Len(query.name) >= AnonymousMinLen /\ AllHex(query.name)))

\* C6: when wildcard mode is not active, is_volume_backed_up(name) is true
\* exactly when name is a member of volumes_to_backup, which after a
\* successful load means: exactly when a declared volume entry carries that
\* name; with no volumes section it is false for every name.
C6_ExplicitVolumes ==
    (query.op = "is_volume_backed_up" /\ ~query.raised /\ ~backup_all_volumes) =>
        /\ query.backed_up <=> query.name \in Range(volumes_to_backup)
        /\ loadResult = "ok" =>
              (query.backed_up <=>
                  \E i \in 1..Len(VolumesOf(loadDoc)) :
                      VolumesOf(loadDoc)[i].name = query.name)
        /\ (loadResult = "ok" /\ "volumes" \notin DOMAIN loadDoc) => ~query.backed_up

\* a name that only extends a declared name is not eligible
C6_Witness ==
    /\ query.op = "is_volume_backed_up"
    /\ ~query.raised
    /\ loadResult = "ok"
    /\ ~backup_all_volumes
    /\ volumes_to_backup = << "vol1", "vol2" >>
    /\ query.name = "vol12"
    /\ ~query.backed_up

\* C7: after a successful load() backup_all_volumes is true exactly when some
\* volume entry is named '*'; when it is true volumes_to_backup is empty, and
\* when it is false volumes_to_backup lists every declared name in declaration
\* order.
C7_VolumesToBackup ==
    loadResult = "ok" =>
        LET vols == VolumesOf(loadDoc)
        IN  /\ backup_all_volumes <=> \E i \in 1..Len(vols) : vols[i].name = "*"
            /\ backup_all_volumes => volumes_to_backup = << >>
            /\ ~backup_all_volumes =>
                  volumes_to_backup = [i \in 1..Len(vols) |-> vols[i].name]

\* a wildcard declared after an explicit entry
C7_Witness ==
    /\ loadResult = "ok"
    /\ "volumes" \in DOMAIN loadDoc
    /\ Len(loadDoc.volumes) = 2
    /\ loadDoc.volumes[1].name = "vol1"
    /\ loadDoc.volumes[2].name = "*"
    /\ backup_all_volumes
    /\ volumes_to_backup = << >>

\* the container runs of the invocation so far, in the order they were started
Runs == docker.runs

Finished == pc = "done"

\* C4: in a BACKUP pass the argument vector of the run for volume n is
\* --cache-dir /cache, get_options(volume=n), --host hostname, backup,
\* /volume/n, then the pass-through arguments and the quiet flag; the vector
\* of the run for local directory tag t is the same with get_options(localdir=t)
\* and /localdir/t.
C4_BackupArgumentOrder ==
    \A i \in 1..Len(Runs) :
        LET r    == Runs[i]
            tail == settings.restic_arguments
                        \o (IF settings.quiet THEN << "-q" >> ELSE << >>)
        IN  /\ r.phase = "volume" =>
                  r.command =
                      << "--cache-dir", "/cache" >>
                          \o get_options(configuration, r.volume, << >>)
                          \o << "--host", hostname, "backup", "/volume/" \o r.volume[1] >>
                          \o tail
            /\ r.phase = "localdir" =>
                  r.command =
                      << "--cache-dir", "/cache" >>
                          \o get_options(configuration, << >>, << r.localdir[1] >>)
                          \o << "--host", hostname, "backup",
                                "/localdir/" \o r.localdir[1] >>
                          \o tail

\* C8: an invocation of RUN, SNAPSHOTS or RESTORE never starts a second
\* container; when run() returns, one container was run and its exit code was
\* 0; when the container of the invocation exited with code c, run() ends by
\* raising ResticToolException with exit_code c if c is not 0 and by returning
\* if c is 0.
C8_SingleRunPropagates ==
    settings.subcommand \in {"RUN", "SNAPSHOTS", "RESTORE"} =>
        /\ Len(Runs) <= 1
        /\ (Finished /\ outcome = Returned) =>
              (Len(Runs) = 1 /\ Runs[1].exit = << 0 >>)
        /\ (Finished /\ Len(Runs) = 1 /\ Runs[1].exit # << >>) =>
              outcome = IF Runs[1].exit[1] = 0 THEN Returned
                        ELSE ResticToolException(Runs[1].exit[1])

\* a restore whose container exited with 3
C8_Witness ==
    /\ settings.subcommand = "RESTORE"
    /\ Finished
    /\ Len(Runs) = 1
    /\ Runs[1].exit = << 3 >>
    /\ outcome = ResticToolException(3)

PhaseRank(r) ==
    CASE r.phase = "volume" -> 1
      [] r.phase = "localdir" -> 2
      [] r.phase = "forget" -> 3
      [] OTHER -> 4

\* the names of the inventory that are eligible for backup
EligibleNames ==
    {n \in Range(docker.inventory) :
        is_volume_backed_up(backup_all_volumes, volumes_to_backup, n)}

\* C10: in a BACKUP pass the inventory is read once; the volume runs come
\* first, each for an eligible volume of the inventory, in strictly ascending
\* order of name; the local directory runs follow, the k-th of them for the
\* k-th entry of localdirs_to_backup; and a pass that no exception of the
\* container runtime cut short ends with one run for every eligible volume and
\* one for every entry of localdirs_to_backup, whatever the exit codes were.
C10_BackupOrder ==
    settings.subcommand = "BACKUP" =>
        LET vruns == SelectSeq(Runs, LAMBDA r : r.phase = "volume")
            lruns == SelectSeq(Runs, LAMBDA r : r.phase = "localdir")
        IN  /\ Len(SelectSeq(docker.lookups, LAMBDA c : c = "volumes")) <= 1
            /\ Runs # << >> => Len(SelectSeq(docker.lookups, LAMBDA c : c = "volumes")) = 1
            /\ \A i \in 1..Len(Runs), j \in 1..Len(Runs) :
                  i < j => PhaseRank(Runs[i]) <= PhaseRank(Runs[j])
            /\ \A i \in 1..Len(vruns) : vruns[i].volume[1] \in EligibleNames
            /\ \A i \in 1..Len(vruns), j \in 1..Len(vruns) :
                  i < j => str_lt(vruns[i].volume[1], vruns[j].volume[1])
            /\ Len(lruns) <= Len(localdirs_to_backup)
            /\ \A k \in 1..Len(lruns) : lruns[k].localdir = localdirs_to_backup[k]
            /\ (Finished /\ loadResult = "ok" /\ "volumes" \in Range(docker.lookups)
                  /\ outcome # DockerError) =>
                  /\ outcome = Returned
                  /\ {vruns[i].volume[1] : i \in 1..Len(vruns)} = EligibleNames
                  /\ Len(lruns) = Len(localdirs_to_backup)

\* a pass over an inventory listed out of order, whose first volume run
\* failed
C10_Witness ==
    /\ settings.subcommand = "BACKUP"
    /\ Finished
    /\ outcome = Returned
    /\ docker.inventory = << "vol2", "vol1" >>
    /\ Len(Runs) >= 3
    /\ Runs[1].volume = << "vol1" >>
    /\ Runs[1].exit = << 3 >>
    /\ Runs[2].volume = << "vol2" >>
    /\ Runs[3].phase = "localdir"

\* the load of setup() succeeded
SetUp == pc # "setup" /\ loadResult = "ok"

\* _run_backup has read the inventory
InventoryRead == "volumes" \in Range(docker.lookups)

\* C11: in a BACKUP pass with no eligible volume and no local directory to
\* back up no container is ever run, and once the inventory was read the
\* pass has reported "Nothing to back up" and run() has returned.
C11_NothingToBackUp ==
    (settings.subcommand = "BACKUP" /\ SetUp /\ EligibleNames = {}
        /\ localdirs_to_backup = << >>) =>
        /\ Runs = << >>
        /\ InventoryRead =>
              /\ Finished
              /\ outcome = Returned
              /\ "Nothing to back up" \in Range(docker.log)

\* a pass over an inventory whose only volume is not declared, with forget
\* options configured
C11_Witness ==
    /\ settings.subcommand = "BACKUP"
    /\ SetUp
    /\ is_forget_specified(configuration)
    /\ docker.inventory = << "vol1" >>
    /\ EligibleNames = {}
    /\ localdirs_to_backup = << >>
    /\ InventoryRead
    /\ Finished
    /\ Runs = << >>
    /\ outcome = Returned

\* the runs of one phase, in order
RunsOf(phase) == SelectSeq(Runs, LAMBDA r : r.phase = phase)

ResourceRuns == SelectSeq(Runs, LAMBDA r : r.phase \in {"volume", "localdir"})

\* the configuration declares options.forget
ForgetConfigured ==
    "options" \in DOMAIN configuration /\ "forget" \in DOMAIN configuration.options

\* a BACKUP pass that processed a resource and that run() returned from
BackupPassDone ==
    /\ settings.subcommand = "BACKUP"
    /\ SetUp
    /\ Finished
    /\ outcome = Returned
    /\ ResourceRuns # << >>

\* the runs come in the order resources, forget, prune
PhasesInOrder ==
    \A i \in 1..Len(Runs), j \in 1..Len(Runs) :
        i < j => PhaseRank(Runs[i]) <= PhaseRank(Runs[j])

Max(S) == CHOOSE i \in S : \A j \in S : j <= i

\* _run_backup has reached its return statement
BackupReturned ==
    settings.subcommand = "BACKUP" /\ SetUp /\ Finished /\ frame.phase = "return"

\* C13: when _run_backup returns, the exit_code it tracked is the maximum of
\* 0 and the exit codes of all the container runs of the pass, the forget
\* run's included.
C13_ExitCodeIsMaximum ==
    BackupReturned =>
        frame.exit_code = Max({0} \cup {Runs[i].exit[1] : i \in 1..Len(Runs)})

C15_ContainersRemoved ==
    /\ Cardinality(docker.containers) <= 1
    /\ Finished => docker.containers = {}

\* setup() met a configuration error
ConfigurationError == pc # "setup" /\ loadResult = "ValueError"

\* the cache or the restore directory could not be created
DirectoryFailure == docker.failed_dir # << >>

\* C16: an invocation that met a configuration error or failed to create
\* the cache or restore directory has ended with ResticToolException(16)
\* and has run no container.
C16_FatalBeforeAnyRun ==
    (ConfigurationError \/ DirectoryFailure) =>
        /\ Finished
        /\ outcome = ResticToolException(16)
        /\ Runs = << >>
        /\ docker.containers = {}

\* a restore whose restore directory could not be created after the cache
\* directory was
C16_Witness ==
    /\ settings.subcommand = "RESTORE"
    /\ docker.failed_dir = << "restore" >>
    /\ settings.cache_directory \in docker.dirs
    /\ outcome = ResticToolException(16)
    /\ Runs = << >>

\* a backup whose configuration names a forbidden key
C16_WitnessForbidden ==
    /\ settings.subcommand = "BACKUP"
    /\ ConfigurationError
    /\ "forbidden" \in loadError
    /\ outcome = ResticToolException(16)
    /\ Runs = << >>

\* the mount table m binds host path or volume h to target, read-write
Binds(m, h, target) ==
    h \in DOMAIN m /\ m[h] = [bind |-> target, mode |-> "rw"]

\* C17: the mount table of every container run binds the cache directory to
\* /cache; a volume run binds the volume to /volume/<name> besides, a local
\* directory run the path to /localdir/<tag>, a restore run the restore
\* directory to /target; and the table holds nothing else.
C17_MountTable ==
    \A i \in 1..Len(Runs) :
        LET r == Runs[i]
            m == r.volumes
        IN  /\ Binds(m, settings.cache_directory, "/cache")
            /\ r.phase = "volume" =>
                  /\ Binds(m, r.volume[1], "/volume/" \o r.volume[1])
                  /\ DOMAIN m = {settings.cache_directory, r.volume[1]}
            /\ r.phase = "localdir" =>
                  /\ Binds(m, r.localdir[2], "/localdir/" \o r.localdir[1])
                  /\ DOMAIN m = {settings.cache_directory, r.localdir[2]}
            /\ r.phase = "restore" =>
                  /\ Binds(m, settings.restore_directory, "/target")
                  /\ DOMAIN m = {settings.cache_directory, settings.restore_directory}
            /\ r.phase \notin {"volume", "localdir", "restore"} =>
                  DOMAIN m = {settings.cache_directory}

\* the pass-through arguments and the quiet flag that end every vector
VectorTail ==
    settings.restic_arguments \o (IF settings.quiet THEN << "-q" >> ELSE << >>)

ForgetScopeOptions == get_options_scope(configuration, << >>, << >>, TRUE)

WithoutForget(cfg) ==
    IF "options" \in DOMAIN cfg
    THEN [cfg EXCEPT !.options =
            [k \in DOMAIN cfg.options \ {"forget"} |-> cfg.options[k]]]
    ELSE cfg

\* the resources an option list may be asked for: none or a volume name,
\* none or a local directory name
ScopeVolumes == {<< >>, << "vol1" >>, << "vol2" >>, << "other" >>}

ScopeLocaldirs == {<< >>, << "my_tag" >>, << "my_home" >>}

Suffix(s, n) == SubSeq(s, Len(s) - n + 1, Len(s))

KnownSections == {"repository", "logging", "options", "volumes", "localdirs"}

\* load() has been called with a document that is a mapping
LoadedMapping == loadResult # "none" /\ IsDict(loadDoc)

\* the document doc cut down to the keys in K
Restrict(doc, K) == [k \in DOMAIN doc \cap K |-> doc[k]]

\* the load failed in validate()
SchemaFailure == loadResult = "ValueError" /\ "forbidden" \notin loadError

C22_WitnessLogging ==
    /\ LoadedMapping
    /\ "logging" \in DOMAIN loadDoc
    /\ loadResult = "ok"

\* the required fields of the repository r that are missing or empty
RepositoryOffences(r) ==
    {f \in {"location", "password"} : f \notin DOMAIN r \/ r[f] = ""}

\* the document doc is not a mapping, or its repository is missing, not a
\* mapping, or lacks a non-empty location or password
RepositoryInvalid(doc) ==
    \/ ~IsDict(doc)
    \/ "repository" \notin DOMAIN doc
    \/ ~IsDict(doc.repository)
    \/ RepositoryOffences(doc.repository) # {}

\* the last load was given such a document: it raised ValueError, and the
\* error names repository when the repository is missing or no mapping, and
\* otherwise names a missing or empty required field and no sound one
C23_Raises ==
    (loadResult # "none" /\ RepositoryInvalid(loadDoc)) =>
        /\ SchemaFailure
        /\ IsDict(loadDoc) =>
              IF "repository" \notin DOMAIN loadDoc \/ ~IsDict(loadDoc.repository)
              THEN "repository" \in loadError
              ELSE LET off == RepositoryOffences(loadDoc.repository)
                   IN  /\ loadError \cap off # {}
                       /\ loadError \cap {"location", "password"} \subseteq off

\* a step that ends with such a document rejected leaves every attribute of
\* the Configuration as it was
C23_NothingDerived ==
    (loadResult' = "ValueError" /\ RepositoryInvalid(loadDoc')) => UNCHANGED cfgVars

C23_WitnessPassword ==
    /\ IsDict(loadDoc)
    /\ DOMAIN loadDoc = {"repository"}
    /\ DOMAIN loadDoc.repository = {"password"}
    /\ loadError = {"repository", "password"}
    /\ noneAttrs = AllAttrs

\* a step of run() after setup(), or a call of get_options or
\* is_volume_backed_up, leaves every attribute of the Configuration as it was
C24_Frame ==
    (pc \notin {"setup", "idle"} \/ query' # NoQuery) => UNCHANGED cfgVars

\* every container run was given the environment mapping of the
\* Configuration
C24_SameEnvironment ==
    \A i \in 1..Len(Runs) : Runs[i].environment = environment_vars

\* C24: after load, no step of run() and no call of get_options or
\* is_volume_backed_up changes configuration, environment_vars, hostname,
\* volumes_to_backup, backup_all_volumes or localdirs_to_backup, and every
\* container run of the invocation receives the same environment mapping.
C24_ConfigurationImmutable == [][C24_Frame]_vars /\ []C24_SameEnvironment

\* a finished backup of two volumes, a local directory, forget and prune
C24_Witness ==
    /\ BackupPassDone
    /\ Len(Runs) = 5
    /\ configuration = settings.configuration_stream
    /\ \A i \in 1..5 : Runs[i].environment =
          [RESTIC_REPOSITORY |-> "s3:loc", RESTIC_PASSWORD |-> "secret"]

\* the six forbidden names that carry the RESTIC_ prefix
PrefixedForbidden ==
    {"RESTIC_REPOSITORY", "RESTIC_REPOSITORY_FILE", "RESTIC_PASSWORD",
     "RESTIC_PASSWORD_FILE", "RESTIC_PASSWORD_COMMAND", "RESTIC_CACHE_DIR"}

\* the load of a document the schema accepts is rejected if and only if
\* authentication or extra supplies a key of F, and an accepted load passes
\* every supplied key through to environment_vars
ForbiddenIs(F) ==
    LoadedValid =>
        /\ (UserKeys(loadDoc) \cap F # {}) <=> (loadResult = "ValueError")
        /\ loadResult = "ValueError" =>
              \E k \in UserKeys(loadDoc) \cap F : loadError = {"forbidden", k}
        /\ loadResult = "ok" => UserKeys(loadDoc) \subseteq DOMAIN environment_vars

\* C25 as stated: the forbidden keys are the six prefixed names and
\* RESTIC_TMPDIR.
C25_AllPrefixed == ForbiddenIs(PrefixedForbidden \cup {"RESTIC_TMPDIR"})

\* C25 amended: the forbidden keys are the six prefixed names and TMPDIR,
\* which carries no prefix; RESTIC_TMPDIR is accepted and passed through.
C25_TmpdirUnprefixed == ForbiddenIs(PrefixedForbidden \cup {"TMPDIR"})

\* a load that accepted RESTIC_TMPDIR
C25_Witness ==
    /\ LoadedValid
    /\ "RESTIC_TMPDIR" \in UserKeys(loadDoc)
    /\ loadResult = "ok"
    /\ "RESTIC_TMPDIR" \in DOMAIN environment_vars
    /\ environment_vars["RESTIC_TMPDIR"] = "/tmp"

\* a load that rejected TMPDIR
C25_WitnessTmpdir ==
    /\ LoadedValid
    /\ UserKeys(loadDoc) = {"TMPDIR"}
    /\ loadError = {"forbidden", "TMPDIR"}

\* C26: an invocation of CHECK creates no docker client, pulls no image,
\* creates no directory, looks up no network or volume and runs no
\* container; once it has ended, it has returned normally if the
\* configuration loaded and raised ResticToolException(16) if it did not.
C26_CheckTouchesNothing ==
    settings.subcommand = "CHECK" =>
        /\ client = "None"
        /\ ~docker.pulled
        /\ docker.dirs = {}
        /\ docker.failed_dir = << >>
        /\ docker.lookups = << >>
        /\ Runs = << >>
        /\ docker.containers = {}
        /\ Finished =>
              outcome = IF loadResult = "ok" THEN Returned
                        ELSE ResticToolException(16)

\* a check of a valid configuration with force_pull set, ended
C26_Witness ==
    /\ settings.subcommand = "CHECK"
    /\ settings.force_pull
    /\ loadResult = "ok"
    /\ Finished
    /\ outcome = Returned

\* a check of a configuration with a forbidden key, ended
C26_WitnessInvalid ==
    /\ settings.subcommand = "CHECK"
    /\ "forbidden" \in loadError
    /\ Finished
    /\ outcome = ResticToolException(16)


\* ---- C27
\* the non-blank lines of the emitted sample block
SampleLines == SelectSeq(metrics.lines, LAMBDA l : l # "")

StartsWith(line, prefix) ==
    Len(line) >= Len(prefix) /\ SubSeq(line, 1, Len(prefix)) = prefix

SummaryOf(snapshot) ==
    IF "summary" \in DOMAIN snapshot THEN snapshot.summary ELSE EmptyDict

\* the metric families the snapshot record has a value for, in emission order
FamiliesOf(snapshot) ==
    << TIMESTAMP_METRIC >>
    \o (IF {"backup_start", "backup_end"} \subseteq DOMAIN SummaryOf(snapshot)
        THEN << DURATION_METRIC >> ELSE << >>)
    \o (IF "total_files_processed" \in DOMAIN SummaryOf(snapshot)
        THEN << FILES_METRIC >> ELSE << >>)
    \o (IF "total_bytes_processed" \in DOMAIN SummaryOf(snapshot)
        THEN << SIZE_METRIC >> ELSE << >>)

CompleteSummary(snapshot) ==
    DOMAIN SummaryOf(snapshot) = DOMAIN SummaryFields

\* C27: metric_lines always emits the timestamp sample line first, and the
\* duration, files and size sample lines exactly for the fields the snapshot
\* record carries, in that order: one sample line for a record without
\* summary, four (timestamp, duration, files, size) for a complete summary.
C27_SampleLines ==
    metrics.phase = "emitted" =>
        /\ Len(SampleLines) = Len(FamiliesOf(metrics.snapshot))
        /\ \A i \in 1..Len(SampleLines) :
              StartsWith(SampleLines[i], FamiliesOf(metrics.snapshot)[i] \o "{")
        /\ StartsWith(SampleLines[1], TIMESTAMP_METRIC \o "{")
        /\ "summary" \notin DOMAIN metrics.snapshot => Len(SampleLines) = 1
        /\ CompleteSummary(metrics.snapshot) =>
              /\ Len(SampleLines) = 4
              /\ StartsWith(SampleLines[2], DURATION_METRIC \o "{")
              /\ StartsWith(SampleLines[3], FILES_METRIC \o "{")
              /\ StartsWith(SampleLines[4], SIZE_METRIC \o "{")

\* the lines of a record with a complete summary were emitted
C27_Witness ==
    /\ metrics.phase = "emitted"
    /\ CompleteSummary(metrics.snapshot)
    /\ Len(SampleLines) = 4

\* the lines of a record without summary were emitted
C27_WitnessLimited ==
    /\ metrics.phase = "emitted"
    /\ "summary" \notin DOMAIN metrics.snapshot
    /\ Len(SampleLines) = 1

\* the lines of a record with a partial summary were emitted
C27_WitnessPartial ==
    /\ metrics.phase = "emitted"
    /\ DOMAIN SummaryOf(metrics.snapshot) = {"backup_start", "total_bytes_processed"}
    /\ Len(SampleLines) = 2

\* ---- C28
\* _find_own_network has asked the container runtime for the bridge network
NetworkLookedUp == "bridge" \in Range(docker.lookups)

\* the host alias a run is started with, given what the discovery left
AliasFor(address) ==
    IF address = << >> THEN EmptyDict
    ELSE [k \in {"restictool.local"} |-> address[1]]

\* C28: no failure of the own-address discovery ends the invocation: once the
\* lookup was made, the invocation never ends with the container runtime's
\* error before any container was started; and every container run carries
\* the alias restictool.local -> gateway when an address was discovered and
\* no alias otherwise.
C28_DiscoveryNonFatal ==
    /\ (NetworkLookedUp /\ Runs = << >>) => outcome # DockerError
    /\ \A i \in 1..Len(Runs) : Runs[i].extra_hosts = AliasFor(own_ip_address)

\* the part the code keeps: a network that is not recognized leaves no address
\* and the runs go on without alias; a discovered gateway is every run's alias
C28_RecognizedFailuresNonFatal ==
    \A i \in 1..Len(Runs) : Runs[i].extra_hosts = AliasFor(own_ip_address)

\* a container ran without alias after the network was not recognized
C28_WitnessNoAlias ==
    /\ NetworkLookedUp
    /\ own_ip_address = << >>
    /\ Runs # << >>
    /\ Runs[1].extra_hosts = EmptyDict

\* a container ran with the alias of the discovered gateway
C28_WitnessAlias ==
    /\ NetworkLookedUp
    /\ own_ip_address = << "172.17.0.1" >>
    /\ Runs # << >>
    /\ Runs[1].extra_hosts = AliasFor(own_ip_address)

\* ---- C29
\* the attributes load() derives from the document
LoadedAttributes ==
    << configuration, environment_vars, hostname, volumes_to_backup,
       backup_all_volumes, localdirs_to_backup >>

\* every attribute is what the last loaded document alone gives
FunctionOfLastDocument ==
    /\ configuration = loadDoc
    /\ environment_vars = create_env_vars(loadDoc).env
    /\ hostname = load_hostname(loadDoc)
    /\ volumes_to_backup = load_volumes(loadDoc).volumes_to_backup
    /\ backup_all_volumes = load_volumes(loadDoc).backup_all_volumes
    /\ localdirs_to_backup = load_localdirs(loadDoc)

\* a load that raises ValueError leaves the attributes as they were
C29_FailedLoadFrame ==
    loadResult' = "ValueError" => UNCHANGED LoadedAttributes

\* C29: over any sequence of loads on one Configuration, a load that raises
\* ValueError (schema error or forbidden key) leaves configuration,
\* environment_vars, hostname, volumes_to_backup, backup_all_volumes and
\* localdirs_to_backup exactly as they were, and after a successful load each
\* of them is a function of the last loaded document only.
C29_LoadAtomic ==
    /\ [][C29_FailedLoadFrame]_vars
    /\ [](loadResult = "ok" => FunctionOfLastDocument)

\* the part that holds: a document the schema rejects changes nothing, and a
\* successful load leaves only what its document gives
C29_SchemaFailureFrame ==
    /\ [][(loadResult' = "ValueError" /\ "forbidden" \notin loadError')
            => UNCHANGED LoadedAttributes]_vars
    /\ [](loadResult = "ok" => FunctionOfLastDocument)

\* a forbidden key was rejected on a Configuration loaded before: configuration
\* and environment_vars are the rejected document's, the volumes are the
\* earlier document's
C29_WitnessMixed ==
    /\ loadResult = "ValueError"
    /\ "forbidden" \in loadError
    /\ configuration = loadDoc
    /\ "TMPDIR" \in DOMAIN environment_vars
    /\ backup_all_volumes
    /\ "volumes" \notin DOMAIN configuration

\* ---- C30
\* a run of a BACKUP pass names the resource its phase is about
NamesResource(run) ==
    CASE run.phase = "volume" -> Truthy(run.volume) /\ run.localdir = << >>
      [] run.phase = "localdir" ->
            /\ run.volume = << >>
            /\ run.localdir # << >>
            /\ run.localdir[1] # ""
      [] OTHER -> run.phase \in {"forget", "prune"}

\* C30: the assertion `volume or localdir_name` of _get_restic_arguments never
\* fails in a BACKUP pass driven by run(): no invocation ends with an
\* AssertionError, and every container run of a BACKUP names a non-empty
\* volume, names a non-empty local-directory tag, or is a forget or prune run.
C30_AssertionNeverFails ==
    /\ outcome # AssertionError
    /\ settings.subcommand = "BACKUP" =>
          \A i \in 1..Len(Runs) : NamesResource(Runs[i])

\* a BACKUP pass ran a volume, a local directory and the forget run
C30_Witness ==
    /\ settings.subcommand = "BACKUP"
    /\ \E i \in 1..Len(Runs) : Runs[i].phase = "volume"
    /\ \E i \in 1..Len(Runs) : Runs[i].phase = "localdir"
    /\ \E i \in 1..Len(Runs) : Runs[i].phase = "forget"

\* a document with an empty local-directory tag never reaches the BACKUP pass
C30_WitnessEmptyTag ==
    /\ settings.subcommand = "BACKUP"
    /\ "localdirs" \in DOMAIN loadDoc
    /\ loadDoc.localdirs[1].name = ""
    /\ loadResult = "ValueError"
    /\ Finished
    /\ Runs = << >>
====
